---- MODULE Spec2Model ----
(***************************************************************************)
(* A model of the NCBI eUtils gateway (src/gateways/createGateway.js) and  *)
(* of the four named gateway constructors (src/gateways/index.js).         *)
(*                                                                         *)
(* JavaScript strings are sequences of one-character strings, so that      *)
(* concatenation, substring and encodeURI are computed character by        *)
(* character.  JavaScript values are tagged records of one shape.  Objects *)
(* used as mappings are sequences of key/value pairs in insertion order,   *)
(* which is the order of for..in for keys that are not array indices; the  *)
(* keys drawn here are never array indices.  A params object lives on a    *)
(* heap and a gateway's settings hold a reference to it, as in the source. *)
(***************************************************************************)
EXTENDS Integers, Sequences, FiniteSets

\* ---------------------------------------------------------------- bounds
\* the number of operations of the caller that create or change a gateway
MaxOps == 3

\* ------------------------------------------------------ JavaScript values
Undef == [t |-> "undef", n |-> 0, s |-> <<>>]
Num(i) == [t |-> "num", n |-> i, s |-> <<>>]
Str(cs) == [t |-> "str", n |-> 0, s |-> cs]
Bool(b) == [t |-> "bool", n |-> IF b THEN 1 ELSE 0, s |-> <<>>]
Ref(o) == [t |-> "ref", n |-> o, s |-> <<>>]
Arr(ns) == [t |-> "arr", n |-> 0, s |-> ns]
Response(status, body) == [t |-> "resp", n |-> status, s |-> body]
Error(name) == [t |-> "err", n |-> 0, s |-> name]

Truthy(v) ==
  CASE v.t = "undef" -> FALSE
    [] v.t = "bool" -> v.n = 1
    [] v.t = "num" -> v.n # 0
    [] v.t = "str" -> v.s # <<>>
    [] OTHER -> TRUE

Digit(d) == SubSeq(<<"0", "1", "2", "3", "4", "5", "6", "7", "8", "9">>, d + 1, d + 1)

RECURSIVE Digits(_)
Digits(i) == IF i < 10 THEN Digit(i) ELSE Digits(i \div 10) \o Digit(i % 10)

\* Number.prototype.toString for integers
NumToString(i) == IF i < 0 THEN <<"-">> \o Digits(-i) ELSE Digits(i)

RECURSIVE join(_)
\* Array.prototype.join() of an array of integers: separator ","
join(ns) ==
  IF ns = <<>> THEN <<>>
  ELSE IF Len(ns) = 1 THEN NumToString(ns[1])
  ELSE NumToString(ns[1]) \o <<",">> \o join(Tail(ns))

\* the string a value contributes to a string concatenation
toString(v) ==
  CASE v.t = "str" -> v.s
    [] v.t = "num" -> NumToString(v.n)
    [] v.t = "undef" -> <<"u", "n", "d", "e", "f", "i", "n", "e", "d">>
    [] v.t = "bool" -> IF v.n = 1 THEN <<"t", "r", "u", "e">> ELSE <<"f", "a", "l", "s", "e">>
    [] v.t = "arr" -> join(v.s)
    [] OTHER -> <<"[", "o", "b", "j", "e", "c", "t", " ", "O", "b", "j", "e", "c", "t", "]">>

\* the characters encodeURI leaves alone
Chars(cs) == { cs[i] : i \in 1..Len(cs) }

UriKept ==
  Chars(<<"a", "b", "c", "d", "e", "f", "g", "h", "i", "j", "k", "l", "m", "n", "o", "p", "q", "r", "s", "t", "u", "v", "w", "x", "y", "z">>) \cup Chars(<<"A", "B", "C", "D", "E", "F", "G", "H", "I", "J", "K", "L", "M", "N", "O", "P", "Q", "R", "S", "T", "U", "V", "W", "X", "Y", "Z">>)
    \cup Chars(<<"0", "1", "2", "3", "4", "5", "6", "7", "8", "9">>) \cup Chars(<<";", ",", "/", "?", ":", "@", "&", "=", "+", "$", "-", "_", ".", "!", "~", "*", "'", "(", ")", "#">>)

\* the escape of one character outside UriKept (the ones drawn here)
Escape(c) ==
  CASE c = " " -> <<"%", "2", "0">>
    [] c = "%" -> <<"%", "2", "5">>
    [] c = "<" -> <<"%", "3", "C">>
    [] c = ">" -> <<"%", "3", "E">>
    [] c = "^" -> <<"%", "5", "E">>
    [] c = "|" -> <<"%", "7", "C">>

RECURSIVE encodeURI(_)
\* every character kept or escaped, in order (the string is halved to keep the
\* evaluation shallow)
encodeURI(cs) ==
  IF cs = <<>> THEN <<>>
  ELSE IF Len(cs) = 1 THEN (IF cs[1] \in UriKept THEN cs ELSE Escape(cs[1]))
  ELSE LET half == Len(cs) \div 2
       IN encodeURI(SubSeq(cs, 1, half)) \o encodeURI(SubSeq(cs, half + 1, Len(cs)))

\* String.prototype.substring(from, to) with 0 <= from, zero-based, end excluded
substring(cs, from, to) ==
  LET hi == IF to < 0 THEN 0 ELSE IF to > Len(cs) THEN Len(cs) ELSE to
  IN SubSeq(cs, from + 1, hi)

\* ------------------------------------------------- objects used as mappings
has(obj, key) == \E i \in 1..Len(obj) : obj[i].k = key

\* obj[key]
prop(obj, key) ==
  IF has(obj, key)
  THEN obj[CHOOSE i \in 1..Len(obj) : obj[i].k = key].v
  ELSE Undef

\* obj[key] = value: an existing key keeps its place, a new key goes last
assign(obj, key, value) ==
  IF has(obj, key)
  THEN [i \in 1..Len(obj) |-> IF obj[i].k = key THEN [k |-> key, v |-> value] ELSE obj[i]]
  ELSE Append(obj, [k |-> key, v |-> value])

RECURSIVE extend_keep(_, _)
\* extend, were it to keep the value of a key obj already has (as _.defaults does)
extend_keep(obj, source) ==
  IF source = <<>> THEN obj
  ELSE extend_keep(IF has(obj, source[1].k) THEN obj
                   ELSE assign(obj, source[1].k, source[1].v),
                   Tail(source))

RECURSIVE extend(_, _)
\* _.extend(obj, source): every key of source, in order, assigned to obj
extend(obj, source) ==
  IF source = <<>> THEN obj
  ELSE extend(assign(obj, source[1].k, source[1].v), Tail(source))

keys(obj) == { obj[i].k : i \in 1..Len(obj) }

pair(key, value) == [k |-> key, v |-> value]

\* ------------------------------------------------------------------ state
VARIABLES
  heap,      \* the params objects: heap[o] is the mapping of object o
  gateways,  \* the gateways created so far: [settings, props]; props are the
             \* own properties of the gateway object other than settings
  call,      \* the send()/get() call under way and what it did
  last,      \* the latest operation of the caller, its arguments and its return value
  origin,    \* origin[g]: the function that returned gateway g
  written,   \* written[o]: key/value as given by the latest write of each key of object o
  touched,   \* touched[g]: retmode was written to g's mapping after g was returned
  nops       \* the number of calls made that create or change a gateway

vars == <<heap, gateways, call, last, origin, written, touched, nops>>

\* ----------------------------------------------------------------- Gateway
\* this.settings.params
params(h, gw) == h[prop(gw.settings, <<"p", "a", "r", "a", "m", "s">>).n]

\* Gateway.getBase: the value returned (and stored in this.base)
getBase(gw) ==
  <<"h", "t", "t", "p", ":", "/", "/", "e", "u", "t", "i", "l", "s", ".", "n", "c", "b", "i", ".", "n", "l", "m", ".", "n", "i", "h", ".", "g", "o", "v", "/", "e", "n", "t", "r", "e", "z", "/", "e", "u", "t", "i", "l", "s", "/">>
    \o toString(prop(gw.settings, <<"m", "e", "t", "h", "o", "d">>)) \o <<".", "f", "c", "g", "i", "?">>

\* Gateway.addParams: the heap after _.extend(this.settings.params, params)
addParams(h, gw, ps) ==
  [h EXCEPT ![prop(gw.settings, <<"p", "a", "r", "a", "m", "s">>).n] = extend(@, ps)]

\* Gateway.addIds: the argument it hands to addParams
idParams(ids) ==
  LET idString == IF ids.t = "arr" THEN Str(join(ids.s)) ELSE ids
  IN <<pair(<<"i", "d">>, idString)>>

addIds(h, gw, ids) == addParams(h, gw, idParams(ids))

RECURSIVE urlLoop(_, _)
\* the for..in loop of generateUrl
urlLoop(url, ps) ==
  IF ps = <<>> THEN url
  ELSE urlLoop(url \o ps[1].k \o <<"=">> \o toString(ps[1].v) \o <<"&">>, Tail(ps))

\* Gateway.generateUrl
generateUrl(h, gw) ==
  LET url == urlLoop(getBase(gw), params(h, gw))
  IN encodeURI(substring(url, 0, Len(url) - 1))

\* ----------------------------------------------------------- createGateway
\* the defaults literal; its params: {} is object fresh
defaults(fresh) ==
  << pair(<<"m", "e", "t", "h", "o", "d">>, Str(<<"e", "s", "e", "a", "r", "c", "h">>)),
     pair(<<"r", "e", "s", "p", "o", "n", "s", "e", "T", "y", "p", "e">>, Str(<<"j", "s", "o", "n">>)),
     pair(<<"p", "a", "r", "a", "m", "s">>, Ref(fresh)),
     pair(<<"t", "e", "s", "t">>, Bool(FALSE)) >>

\* createGateway, were it to add retmode only to params that have none
createGateway_keepRetmode(h, args) ==
  LET fresh == Len(h) + 1
      gateway == [settings |-> extend(defaults(fresh), args), props |-> <<>>]
      h1 == IF prop(gateway.settings, <<"p", "a", "r", "a", "m", "s">>) = Ref(fresh) THEN Append(h, <<>>) ELSE h
  IN [gateway |-> gateway,
      heap |-> IF has(params(h1, gateway), <<"r", "e", "t", "m", "o", "d", "e">>) THEN h1
               ELSE addParams(h1, gateway,
                      <<pair(<<"r", "e", "t", "m", "o", "d", "e">>, prop(gateway.settings, <<"r", "e", "s", "p", "o", "n", "s", "e", "T", "y", "p", "e">>))>>)]

\* module.exports of createGateway.js, on heap h: the gateway and the heap after.
\* The object of the defaults' params: {} is kept on the heap only when the
\* settings refer to it (nothing refers to it otherwise).
createGateway(h, args) ==
  LET fresh == Len(h) + 1
      gateway == [settings |-> extend(defaults(fresh), args), props |-> <<>>]
      h1 == IF prop(gateway.settings, <<"p", "a", "r", "a", "m", "s">>) = Ref(fresh) THEN Append(h, <<>>) ELSE h
  IN [gateway |-> gateway,
      heap |-> addParams(h1, gateway,
                         <<pair(<<"r", "e", "t", "m", "o", "d", "e">>, prop(gateway.settings, <<"r", "e", "s", "p", "o", "n", "s", "e", "T", "y", "p", "e">>))>>)]

\* ------------------------------------------------------ named constructors
\* pubmedSearch, were retmax the end rather than the count
pubmedSearch_retmaxEnd(h, query, start, end) ==
  LET lit == << pair(<<"d", "b">>, Str(<<"p", "u", "b", "m", "e", "d">>)),
                pair(<<"t", "e", "r", "m">>, query),
                pair(<<"r", "e", "t", "s", "t", "a", "r", "t">>, Num(start)),
                pair(<<"r", "e", "t", "m", "a", "x">>, Num(end)) >>
  IN createGateway(Append(h, lit),
       << pair(<<"d", "o", "c", "u", "m", "e", "n", "t", "T", "y", "p", "e">>, Str(<<"e", "s", "e", "a", "r", "c", "h">>)),
          pair(<<"p", "a", "r", "a", "m", "s">>, Ref(Len(h) + 1)) >>)

\* each named constructor evaluates its params literal into a new object, then
\* calls createGateway
pubmedSearch(h, query, start, end) ==
  LET lit == << pair(<<"d", "b">>, Str(<<"p", "u", "b", "m", "e", "d">>)),
                pair(<<"t", "e", "r", "m">>, query),
                pair(<<"r", "e", "t", "s", "t", "a", "r", "t">>, Num(start)),
                pair(<<"r", "e", "t", "m", "a", "x">>, Num(end - start)) >>
  IN createGateway(Append(h, lit),
       << pair(<<"d", "o", "c", "u", "m", "e", "n", "t", "T", "y", "p", "e">>, Str(<<"e", "s", "e", "a", "r", "c", "h">>)),
          pair(<<"p", "a", "r", "a", "m", "s">>, Ref(Len(h) + 1)) >>)

pubmedSummary(h, ids) ==
  LET lit == << pair(<<"d", "b">>, Str(<<"p", "u", "b", "m", "e", "d">>)) >>
      made == createGateway(Append(h, lit),
                << pair(<<"d", "o", "c", "u", "m", "e", "n", "t", "T", "y", "p", "e">>, Str(<<"e", "s", "u", "m", "m", "a", "r", "y">>)),
                   pair(<<"p", "a", "r", "a", "m", "s">>, Ref(Len(h) + 1)) >>)
  IN [gateway |-> made.gateway, heap |-> addIds(made.heap, made.gateway, ids)]

pubmedRecord(h, ids) ==
  LET lit == << pair(<<"d", "b">>, Str(<<"p", "u", "b", "m", "e", "d">>)) >>
      made == createGateway(Append(h, lit),
                << pair(<<"d", "o", "c", "u", "m", "e", "n", "t", "T", "y", "p", "e">>, Str(<<"e", "f", "e", "t", "c", "h">>)),
                   pair(<<"r", "e", "s", "p", "o", "n", "s", "e", "T", "y", "p", "e">>, Str(<<"x", "m", "l">>)),
                   pair(<<"p", "a", "r", "a", "m", "s">>, Ref(Len(h) + 1)) >>)
  IN [gateway |-> made.gateway, heap |-> addIds(made.heap, made.gateway, ids)]

pubmedLinks(h, id) ==
  LET lit == << pair(<<"d", "b">>, Str(<<"p", "u", "b", "m", "e", "d">>)),
                pair(<<"d", "b", "f", "r", "o", "m">>, Str(<<"p", "u", "b", "m", "e", "d">>)),
                pair(<<"c", "m", "d">>, Str(<<"n", "e", "i", "g", "h", "b", "o", "r">>)) >>
      made == createGateway(Append(h, lit),
                << pair(<<"d", "o", "c", "u", "m", "e", "n", "t", "T", "y", "p", "e">>, Str(<<"e", "l", "i", "n", "k">>)),
                   pair(<<"p", "a", "r", "a", "m", "s">>, Ref(Len(h) + 1)) >>)
  IN [gateway |-> made.gateway, heap |-> addIds(made.heap, made.gateway, id)]

\* ------------------------------------------------------------------ inputs
\* args of createGateway, params aside
SettingsArgs ==
  { <<>>,
    <<pair(<<"t", "e", "s", "t">>, Bool(TRUE))>>,
    <<pair(<<"m", "e", "t", "h", "o", "d">>, Str(<<"e", "s", "u", "m", "m", "a", "r", "y">>)), pair(<<"r", "e", "s", "p", "o", "n", "s", "e", "T", "y", "p", "e">>, Str(<<"x", "m", "l">>))>> }
ParamLiterals ==
  { <<pair(<<"r", "e", "t", "m", "o", "d", "e">>, Str(<<"t", "e", "x", "t">>)), pair(<<"t", "e", "r", "m">>, Str(<<"a", "&">>))>> }
Extras ==
  { <<pair(<<"t", "e", "r", "m">>, Str(<<"a", "&">>))>>,
    <<pair(<<"r", "e", "t", "m", "o", "d", "e">>, Str(<<"x", "m", "l">>))>>,
    <<pair(<<"r", "e", "t", "m", "a", "x">>, Num(5)), pair(<<"t", "e", "r", "m">>, Str(<<"a", " ", "b">>))>> }
IdsArgs == { Arr(<<1, 2>>), Num(789) }
LinkIds == { Num(789) }
Queries == { Str(<<"c", "a", "n", "c", "e", "r">>), Str(<<"l", "u", "n", "g", " ", "c", "a", "n", "c", "e", "r">>) }
Ranges == { <<0, 20>>, <<1, 0>> }
Statuses == { 200, 404 }
Bodies == { <<"{", "}">>, <<"<", "a", "/", ">">> }
Errors == { <<"E", "C", "O", "N", "N", "R", "E", "F", "U", "S", "E", "D">>, <<"E", "T", "I", "M", "E", "D", "O", "U", "T">> }
Handlers == { 1, 2 }

\* ----------------------------------------------------------- bookkeeping
PairSet(obj) == { obj[i] : i \in 1..Len(obj) }

\* the record of a write of the pairs ps to object o
write(w, o, ps) ==
  [w EXCEPT ![o] =
     { e \in @ : \A i \in 1..Len(ps) : ps[i].k # e.k } \cup
     { ps[i] : i \in { j \in 1..Len(ps) : \A l \in (j + 1)..Len(ps) : ps[l].k # ps[j].k } }]

objOf(gw) == prop(gw.settings, <<"p", "a", "r", "a", "m", "s">>).n

touch(o, ps) ==
  [g \in 1..Len(gateways) |->
     touched[g] \/ (objOf(gateways[g]) = o /\ \E i \in 1..Len(ps) : ps[i].k = <<"r", "e", "t", "m", "o", "d", "e">>)]

NoCall ==
  [pc |-> "idle", op |-> "none", gw |-> 0, handler |-> 0, url |-> <<>>,
   requests |-> <<>>, outcome |-> Undef,
   sendP |-> [st |-> "none", v |-> Undef], getP |-> [st |-> "none", v |-> Undef],
   parserCalls |-> <<>>, handlerCalls |-> <<>>]

NoOp ==
  [op |-> "none", gw |-> 0, extra |-> <<>>, ret |-> <<>>,
   query |-> Undef, start |-> 0, end |-> 0]

Init ==
  /\ heap = <<>>
  /\ gateways = <<>>
  /\ call = NoCall
  /\ last = NoOp
  /\ origin = <<>>
  /\ written = <<>>
  /\ touched = <<>>
  /\ nops = 0

\* a function op returned the gateway made.gateway, leaving the heap made.heap;
\* w1 is the write record after the caller's allocations, idw what addIds wrote
Made(op, made, w1, idw, info) ==
  LET o == objOf(made.gateway)
      w0 == IF Len(w1) < Len(made.heap) THEN Append(w1, {}) ELSE w1
      rw == <<pair(<<"r", "e", "t", "m", "o", "d", "e">>, prop(made.gateway.settings, <<"r", "e", "s", "p", "o", "n", "s", "e", "T", "y", "p", "e">>))>>
  IN /\ nops < MaxOps
     /\ nops' = nops + 1
     /\ heap' = made.heap
     /\ gateways' = Append(gateways, made.gateway)
     /\ origin' = Append(origin, op)
     /\ written' = write(write(w0, o, rw), o, idw)
     /\ touched' = Append(touch(o, rw), FALSE)
     /\ last' = [info EXCEPT !.op = op, !.gw = Len(gateways) + 1, !.extra = idw]
     /\ UNCHANGED call

\* ----------------------------------------------------------------- actions
\* createGateway(args): args with any of method, responseType, test, and with
\* no params, a params literal, or a params object that already exists
CreateGateway ==
  \E a \in SettingsArgs :
    \/ Made("createGateway", createGateway(heap, a), written, <<>>, NoOp)
    \/ \E lit \in ParamLiterals :
         Made("createGateway",
              createGateway(Append(heap, lit),
                            a \o <<pair(<<"p", "a", "r", "a", "m", "s">>, Ref(Len(heap) + 1))>>),
              Append(written, PairSet(lit)), <<>>, NoOp)
    \/ \E o \in 1..Len(heap) :
         Made("createGateway",
              createGateway(heap, a \o <<pair(<<"p", "a", "r", "a", "m", "s">>, Ref(o))>>),
              written, <<>>, NoOp)

PubmedSearch ==
  \E query \in Queries, range \in Ranges :
    LET start == range[1]
        end == range[2]
    IN Made("pubmedSearch", pubmedSearch(heap, query, start, end),
         Append(written,
                { pair(<<"d", "b">>, Str(<<"p", "u", "b", "m", "e", "d">>)), pair(<<"t", "e", "r", "m">>, query),
                  pair(<<"r", "e", "t", "s", "t", "a", "r", "t">>, Num(start)), pair(<<"r", "e", "t", "m", "a", "x">>, Num(end - start)) }),
         <<>>, [NoOp EXCEPT !.query = query, !.start = start, !.end = end])

PubmedSummary ==
  \E ids \in IdsArgs :
    Made("pubmedSummary", pubmedSummary(heap, ids),
         Append(written, { pair(<<"d", "b">>, Str(<<"p", "u", "b", "m", "e", "d">>)) }), idParams(ids), NoOp)

PubmedRecord ==
  \E ids \in IdsArgs :
    Made("pubmedRecord", pubmedRecord(heap, ids),
         Append(written, { pair(<<"d", "b">>, Str(<<"p", "u", "b", "m", "e", "d">>)) }), idParams(ids), NoOp)

PubmedLinks ==
  \E id \in LinkIds :
    Made("pubmedLinks", pubmedLinks(heap, id),
         Append(written,
                { pair(<<"d", "b">>, Str(<<"p", "u", "b", "m", "e", "d">>)), pair(<<"d", "b", "f", "r", "o", "m">>, Str(<<"p", "u", "b", "m", "e", "d">>)),
                  pair(<<"c", "m", "d">>, Str(<<"n", "e", "i", "g", "h", "b", "o", "r">>)) }),
         idParams(id), NoOp)

\* gateway g's addParams(ps), called as op
Added(op, g, ps) ==
  /\ nops < MaxOps
  /\ heap' = addParams(heap, gateways[g], ps)
  /\ written' = write(written, objOf(gateways[g]), ps)
  /\ touched' = touch(objOf(gateways[g]), ps)
  /\ last' = [NoOp EXCEPT !.op = op, !.gw = g, !.extra = ps,
                          !.ret = params(heap', gateways[g])]
  /\ nops' = nops + 1
  /\ UNCHANGED <<gateways, origin, call>>

AddParams == \E g \in 1..Len(gateways), ps \in Extras : Added("addParams", g, ps)

AddIds == \E g \in 1..Len(gateways), ids \in IdsArgs : Added("addIds", g, idParams(ids))

Create == CreateGateway \/ PubmedSearch \/ PubmedSummary \/ PubmedRecord \/ PubmedLinks

Next ==
  \/ Create
  \/ AddParams
  \/ AddIds

Spec == Init /\ [][Next]_vars

\* ------------------------------------------------------------ send and get
Pending == [st |-> "pending", v |-> Undef]
Fulfilled(v) == [st |-> "fulfilled", v |-> v]
Rejected(v) == [st |-> "rejected", v |-> v]

\* this.test, this.method: own properties of the gateway object
this(gw, name) == prop(gw.props, name)

\* document.body
body(document) == IF document.t = "resp" THEN Str(document.s) ELSE Undef

\* the call of createParser (../documents): the parser is known here only by
\* the arguments it is built from
createParser(b, method) == [body |-> b, method |-> method]

\* the caller's callback: handler 1 returns 1, handler 2 the body it finds in the parser
callback(h, parser) == IF h = 1 THEN Num(1) ELSE parser.body

\* Gateway.send of gateway g, started by op: generateUrl() stores this.base;
\* in test mode the promise is resolved at once, else popsicle issues the request
Sent(op, g, h) ==
  /\ call.pc \in {"idle", "done"}
  /\ \E url \in {generateUrl(heap, gateways[g])} :
     LET gw == gateways[g]
         test == Truthy(this(gw, <<"t", "e", "s", "t">>))
     IN
     /\ gateways' = [gateways EXCEPT ![g].props = assign(@, <<"b", "a", "s", "e">>, Str(getBase(gw)))]
     /\ call' = [NoCall EXCEPT
          !.op = op, !.gw = g, !.handler = h, !.url = url,
          !.requests = IF test THEN <<>> ELSE <<[method |-> "GET", url |-> url]>>,
          !.sendP = IF test THEN Fulfilled(Str(<<"T", "e", "s", "t", " ", "c", "a", "l", "l", " ", "t", "o", " ", "N", "C", "B", "I", " ", "e", "U", "t", "i", "l", "s", ":", " ">> \o url))
                    ELSE Pending,
          !.getP = IF op = "get" THEN Pending ELSE NoCall.getP,
          !.pc = IF ~test THEN "waiting" ELSE IF op = "get" THEN "then" ELSE "done"]
     /\ UNCHANGED <<heap, last, origin, written, touched, nops>>

Send == \E g \in 1..Len(gateways) : Sent("send", g, 0)

Get == \E g \in 1..Len(gateways), h \in Handlers : Sent("get", g, h)

\* popsicle completes the exchange: the promise of send() is resolved with the
\* response, whatever its status
TransportRespond ==
  \E status \in Statuses, b \in Bodies :
    /\ call.pc = "waiting"
    /\ call' = [call EXCEPT
         !.outcome = Response(status, b),
         !.sendP = Fulfilled(Response(status, b)),
         !.pc = IF call.op = "get" THEN "then" ELSE "done"]
    /\ UNCHANGED <<heap, gateways, last, origin, written, touched, nops>>

\* popsicle fails to complete the exchange: the promise of send() is rejected
TransportFail ==
  \E e \in Errors :
    /\ call.pc = "waiting"
    /\ call' = [call EXCEPT
         !.outcome = Error(e),
         !.sendP = Rejected(Error(e)),
         !.pc = IF call.op = "get" THEN "then" ELSE "done"]
    /\ UNCHANGED <<heap, gateways, last, origin, written, touched, nops>>

\* GetThen, were get to hand a failure of send() to the handler as well
GetThen_catch ==
  /\ call.pc = "then"
  /\ LET document == call.sendP.v
         parser == createParser(body(document), this(gateways[call.gw], <<"m", "e", "t", "h", "o", "d">>))
     IN call' = [call EXCEPT
          !.parserCalls = Append(@, parser),
          !.handlerCalls = Append(@, [handler |-> call.handler, parser |-> parser]),
          !.getP = Fulfilled(callback(call.handler, parser)),
          !.pc = "done"]
  /\ UNCHANGED <<heap, gateways, last, origin, written, touched, nops>>

\* Gateway.get: the promise of this.send().then(document => ...), settled
GetThen ==
  /\ call.pc = "then"
  /\ IF call.sendP.st = "fulfilled"
     THEN LET document == call.sendP.v
              parser == createParser(body(document), this(gateways[call.gw], <<"m", "e", "t", "h", "o", "d">>))
          IN call' = [call EXCEPT
               !.parserCalls = Append(@, parser),
               !.handlerCalls = Append(@, [handler |-> call.handler, parser |-> parser]),
               !.getP = Fulfilled(callback(call.handler, parser)),
               !.pc = "done"]
     ELSE call' = [call EXCEPT !.getP = call.sendP, !.pc = "done"]
  /\ UNCHANGED <<heap, gateways, last, origin, written, touched, nops>>

\* one gateway, changed only before it is used, and its calls
NextCall ==
  \/ gateways = <<>> /\ Create
  \/ call.pc = "idle" /\ (AddParams \/ AddIds)
  \/ Send
  \/ Get
  \/ TransportRespond
  \/ TransportFail
  \/ GetThen

SpecCall == Init /\ [][NextCall]_vars

\* ------------------------------------------------------------- properties
url(g) == generateUrl(heap, gateways[g])

StartsWith(cs, prefix) ==
  Len(cs) >= Len(prefix) /\ SubSeq(cs, 1, Len(prefix)) = prefix

EndsWith(cs, c) == cs # <<>> /\ cs[Len(cs)] = c

FailedRequest ==
  \/ call.outcome.t = "err"
  \/ call.outcome.t = "resp" /\ call.outcome.n \notin 200..299

\* C1: a gateway created with test: true never issues a request from send();
\* send() resolves with 'Test call to NCBI eUtils: ' followed by the generated URL.
C1_TestModeSend ==
  (call.op # "none" /\ prop(gateways[call.gw].settings, <<"t", "e", "s", "t">>) = Bool(TRUE))
    => /\ call.requests = <<>>
       /\ call.sendP = Fulfilled(Str(<<"T", "e", "s", "t", " ", "c", "a", "l", "l", " ", "t", "o", " ", "N", "C", "B", "I", " ", "e", "U", "t", "i", "l", "s", ":", " ">> \o call.url))

BaseOf(ctor) ==
  CASE ctor = "pubmedSearch" -> <<"h", "t", "t", "p", ":", "/", "/", "e", "u", "t", "i", "l", "s", ".", "n", "c", "b", "i", ".", "n", "l", "m", ".", "n", "i", "h", ".", "g", "o", "v", "/", "e", "n", "t", "r", "e", "z", "/", "e", "u", "t", "i", "l", "s", "/", "e", "s", "e", "a", "r", "c", "h", ".", "f", "c", "g", "i", "?">>
    [] ctor = "pubmedSummary" -> <<"h", "t", "t", "p", ":", "/", "/", "e", "u", "t", "i", "l", "s", ".", "n", "c", "b", "i", ".", "n", "l", "m", ".", "n", "i", "h", ".", "g", "o", "v", "/", "e", "n", "t", "r", "e", "z", "/", "e", "u", "t", "i", "l", "s", "/", "e", "s", "u", "m", "m", "a", "r", "y", ".", "f", "c", "g", "i", "?">>
    [] ctor = "pubmedRecord" -> <<"h", "t", "t", "p", ":", "/", "/", "e", "u", "t", "i", "l", "s", ".", "n", "c", "b", "i", ".", "n", "l", "m", ".", "n", "i", "h", ".", "g", "o", "v", "/", "e", "n", "t", "r", "e", "z", "/", "e", "u", "t", "i", "l", "s", "/", "e", "f", "e", "t", "c", "h", ".", "f", "c", "g", "i", "?">>
    [] ctor = "pubmedLinks" -> <<"h", "t", "t", "p", ":", "/", "/", "e", "u", "t", "i", "l", "s", ".", "n", "c", "b", "i", ".", "n", "l", "m", ".", "n", "i", "h", ".", "g", "o", "v", "/", "e", "n", "t", "r", "e", "z", "/", "e", "u", "t", "i", "l", "s", "/", "e", "l", "i", "n", "k", ".", "f", "c", "g", "i", "?">>

\* C2: the URL of a gateway returned by a named constructor starts with the base
\* path of that constructor's method, also after addParams/addIds.
C2_NamedBase ==
  \A g \in 1..Len(gateways) :
    origin[g] # "createGateway" => StartsWith(url(g), BaseOf(origin[g]))

\* C3: when send() succeeds, get(handler) builds the parser from the response
\* body and the configured method name, calls handler once with that parser and
\* resolves with what handler returns.
C3_GetParses ==
  (call.op = "get" /\ call.pc = "done" /\ call.sendP.st = "fulfilled")
    => LET parser == createParser(body(call.sendP.v),
                                  prop(gateways[call.gw].settings, <<"m", "e", "t", "h", "o", "d">>))
       IN /\ call.parserCalls = <<parser>>
          /\ call.handlerCalls = <<[handler |-> call.handler, parser |-> parser]>>
          /\ call.getP = Fulfilled(callback(call.handler, parser))

RetmodeMirrors(g) ==
  /\ has(params(heap, gateways[g]), <<"r", "e", "t", "m", "o", "d", "e">>)
  /\ prop(params(heap, gateways[g]), <<"r", "e", "t", "m", "o", "d", "e">>)
       = prop(gateways[g].settings, <<"r", "e", "s", "p", "o", "n", "s", "e", "T", "y", "p", "e">>)

Unshared(g) ==
  \A h \in 1..Len(gateways) : h # g => objOf(gateways[h]) # objOf(gateways[g])

\* C4: in every reachable state a gateway's mapping has a retmode entry equal to
\* settings.responseType.  Stated of the gateways whose params object no other
\* gateway holds, so that a violation owes nothing to a shared params object (C7).
C4_RetmodeMirrors == \A g \in 1..Len(gateways) : Unshared(g) => RetmodeMirrors(g)

\* C4, amended: every gateway's mapping always has a retmode entry; it equals
\* settings.responseType from construction on (also when the params argument had
\* a retmode key) until a later addParams call, or the construction of another
\* gateway on the same params object, writes retmode to that mapping.
C4_RetmodeUntilWritten ==
  \A g \in 1..Len(gateways) :
    /\ has(params(heap, gateways[g]), <<"r", "e", "t", "m", "o", "d", "e">>)
    /\ ~touched[g] => RetmodeMirrors(g)

C4_Witness ==
  \E g \in 1..Len(gateways) :
    /\ last.op = "addIds" /\ last.gw = g
    /\ params(heap, gateways[g])[1] = pair(<<"r", "e", "t", "m", "o", "d", "e">>, Str(<<"x", "m", "l">>))
    /\ prop(params(heap, gateways[g]), <<"t", "e", "r", "m">>) = Str(<<"a", "&">>)
    /\ ~touched[g]

\* C5: a failed request (transport failure or non-2xx response) makes the promise
\* of send() and of get(handler) fail; get then builds no parser and calls no handler.
C5_FailuresReject ==
  (call.pc = "done" /\ FailedRequest)
    => /\ call.sendP.st = "rejected"
       /\ call.op = "get" =>
            /\ call.getP.st = "rejected"
            /\ call.parserCalls = <<>>
            /\ call.handlerCalls = <<>>

\* C6: when send() fails with transport error E, get(handler) fails with E itself,
\* no parser is built, handler is not called, one request only was issued and the
\* promise of get is never fulfilled.
C6_TransportErrorPropagates ==
  (call.op = "get" /\ call.outcome.t = "err")
    => /\ Len(call.requests) = 1
       /\ call.parserCalls = <<>>
       /\ call.handlerCalls = <<>>
       /\ call.getP.st # "fulfilled"
       /\ call.pc = "done" => call.getP = Rejected(call.outcome)

C6_Witness ==
  /\ call.op = "get" /\ call.pc = "done"
  /\ call.outcome = Error(<<"E", "T", "I", "M", "E", "D", "O", "U", "T">>)
  /\ call.getP.st = "rejected"

\* C7: addParams/addIds on one gateway leaves every other gateway's mapping and
\* generated URL unchanged.
C7_NoSharedState ==
  [][\A g \in 1..Len(gateways) :
       (last'.op \in {"addParams", "addIds"} /\ nops' = nops + 1 /\ last'.gw # g)
         => /\ params(heap', gateways'[g]) = params(heap, gateways[g])
            /\ generateUrl(heap', gateways'[g]) = generateUrl(heap, gateways[g])]_vars

\* C8: the generated URL of a gateway never ends with '&'.
C8_NoTrailingSeparator ==
  \A g \in 1..Len(gateways) : ~EndsWith(url(g), "&")

SearchQueryString ==
  <<"h", "t", "t", "p", ":", "/", "/", "e", "u", "t", "i", "l", "s", ".", "n", "c", "b", "i", ".", "n", "l", "m", ".", "n", "i", "h", ".", "g", "o", "v", "/", "e", "n", "t", "r", "e", "z", "/", "e", "u", "t", "i", "l", "s", "/", "e", "s", "e", "a", "r", "c", "h", ".", "f", "c", "g", "i", "?">>
    \o <<"d", "b", "=", "p", "u", "b", "m", "e", "d", "&", "t", "e", "r", "m", "=">> \o toString(last.query)
    \o <<"&", "r", "e", "t", "s", "t", "a", "r", "t", "=">> \o NumToString(last.start)
    \o <<"&", "r", "e", "t", "m", "a", "x", "=">> \o NumToString(last.end - last.start)
    \o <<"&", "r", "e", "t", "m", "o", "d", "e", "=", "j", "s", "o", "n">>

SearchParams ==
  params(heap, gateways[last.gw]) =
    << pair(<<"d", "b">>, Str(<<"p", "u", "b", "m", "e", "d">>)), pair(<<"t", "e", "r", "m">>, last.query),
       pair(<<"r", "e", "t", "s", "t", "a", "r", "t">>, Num(last.start)), pair(<<"r", "e", "t", "m", "a", "x">>, Num(last.end - last.start)),
       pair(<<"r", "e", "t", "m", "o", "d", "e">>, Str(<<"j", "s", "o", "n">>)) >>

\* C9: pubmedSearch(query, start, end) returns a gateway with the parameters db,
\* term, retstart, retmax = end - start, retmode = json in that order, whose URL is
\* the esearch base followed by these pairs with query, start and end as given.
C9_SearchUrlVerbatim ==
  last.op = "pubmedSearch" => (SearchParams /\ url(last.gw) = SearchQueryString)

\* C9, amended: the parameters are as claimed, and the URL is encodeURI applied to
\* the esearch base followed by these pairs (so that of search('cancer', 0, 20) is
\* the one the claim gives, and a query with a space has it as %20).
C9_SearchUrlEncoded ==
  last.op = "pubmedSearch" =>
    /\ SearchParams
    /\ url(last.gw) = encodeURI(SearchQueryString)
    /\ (last.query = Str(<<"c", "a", "n", "c", "e", "r">>) /\ last.start = 0 /\ last.end = 20) =>
         url(last.gw) =
           <<"h", "t", "t", "p", ":", "/", "/", "e", "u", "t", "i", "l", "s", ".", "n", "c", "b", "i", ".", "n", "l", "m", ".", "n", "i", "h", ".", "g", "o", "v", "/", "e", "n", "t", "r", "e", "z", "/", "e", "u", "t", "i", "l", "s", "/", "e", "s", "e", "a", "r", "c", "h", ".", "f", "c", "g", "i", "?", "d", "b", "=", "p", "u", "b", "m", "e", "d", "&", "t", "e", "r", "m", "=", "c", "a", "n", "c", "e", "r", "&", "r", "e", "t", "s", "t", "a", "r", "t", "=", "0", "&", "r", "e", "t", "m", "a", "x", "=", "2", "0", "&", "r", "e", "t", "m", "o", "d", "e", "=", "j", "s", "o", "n">>
    /\ (last.query = Str(<<"l", "u", "n", "g", " ", "c", "a", "n", "c", "e", "r">>) /\ last.start = 1 /\ last.end = 0) =>
         url(last.gw) =
           <<"h", "t", "t", "p", ":", "/", "/", "e", "u", "t", "i", "l", "s", ".", "n", "c", "b", "i", ".", "n", "l", "m", ".", "n", "i", "h", ".", "g", "o", "v", "/", "e", "n", "t", "r", "e", "z", "/", "e", "u", "t", "i", "l", "s", "/", "e", "s", "e", "a", "r", "c", "h", ".", "f", "c", "g", "i", "?", "d", "b", "=", "p", "u", "b", "m", "e", "d", "&", "t", "e", "r", "m", "=", "l", "u", "n", "g", "%", "2", "0", "c", "a", "n", "c", "e", "r", "&", "r", "e", "t", "s", "t", "a", "r", "t", "=", "1", "&", "r", "e", "t", "m", "a", "x", "=", "-", "1", "&", "r", "e", "t", "m", "o", "d", "e", "=", "j", "s", "o", "n">>

C9_Witness ==
  /\ last.op = "pubmedSearch"
  /\ last.query = Str(<<"l", "u", "n", "g", " ", "c", "a", "n", "c", "e", "r">>) /\ last.start = 1 /\ last.end = 0
  /\ prop(params(heap, gateways[last.gw]), <<"r", "e", "t", "m", "a", "x">>) = Num(-1)

\* C10: addParams merges with last-write-wins: in every gateway's mapping each key
\* has the value given by the latest call that mentioned it, a key no call has
\* mentioned since keeps its value, no key is removed, and addParams/addIds
\* return the resulting mapping.
C10_LastWriteWins ==
  /\ \A g \in 1..Len(gateways) :
       LET m == params(heap, gateways[g])
           w == written[objOf(gateways[g])]
       IN /\ keys(m) = { e.k : e \in w }
          /\ \A e \in w : prop(m, e.k) = e.v
          /\ Len(m) = Cardinality(w)
  /\ last.op \in {"addParams", "addIds"} =>
       /\ last.ret = params(heap, gateways[last.gw])
       /\ \A i \in 1..Len(last.extra) : prop(last.ret, last.extra[i].k) = last.extra[i].v

C10_Witness ==
  /\ last.op = "addParams"
  /\ last.ret = << pair(<<"r", "e", "t", "m", "o", "d", "e">>, Str(<<"j", "s", "o", "n">>)), pair(<<"t", "e", "r", "m">>, Str(<<"a", " ", "b">>)),
                   pair(<<"r", "e", "t", "m", "a", "x">>, Num(5)) >>
====
